---- MODULE Spec2Model ----
(***************************************************************************)
(* Model of the echoverse text-rewrite orchestration layer                 *)
(* (backend/rewrite.py, backend/utils.py).                                 *)
(*                                                                         *)
(* Python strings are sequences of one-character strings.  Python values   *)
(* whose type matters to the control flow are tagged records:              *)
(*   [t |-> "str", v |-> <<chars>>]      a str                             *)
(*   [t |-> "none"]                      None                              *)
(*   [t |-> "int", v |-> n]              an int                            *)
(*   [t |-> "tuple", status, body_preview, headers, client_exc]            *)
(*                                       the 5-tuple (None, status, ...)   *)
(***************************************************************************)
EXTENDS Integers, Sequences, FiniteSets, TLC

(***************************************************************************)
(* Bounds of the model.                                                    *)
(***************************************************************************)
\* largest configured GEMINI_TRIES explored (tries ranges over -1..MaxTries)
MaxTries == 3
\* stand-in for safe_trim's default max_chars (20000 in the source)
TrimMax == 8
\* stand-in for DEFAULT_CHUNK_MAX (environment-configured, 3000 by default)
ChunkMax == 6
\* longest text given to backend/utils.py on its own
MaxTextLen == 5
\* largest max_chars given to backend/utils.py on its own
MaxChars == 4
\* longest text given to utils/audio_utils.py's chunker
MaxSentLen == 4
\* largest max_chars given to utils/audio_utils.py's chunker
MaxSentChars == 3
\* longest text given to synthesize_gtts_bytes
MaxTtsLen == 5
\* stand-in for max_chunk_chars (3000 by default)
TtsChunkMax == 2
\* largest chunk_retries (2 by default)
MaxRetries == 2

(***************************************************************************)
(* Strings.                                                                *)
(***************************************************************************)
S1(a) == <<a>>
S2(a, b) == <<a, b>>

\* the characters str.strip() removes (those that occur in the model)
Whitespace == {" ", "\n", "\t"}

RECURSIVE lstrip(_)
lstrip(s) ==
  IF s = <<>> THEN <<>>
  ELSE IF Head(s) \in Whitespace THEN lstrip(Tail(s)) ELSE s

RECURSIVE rstrip(_)
rstrip(s) ==
  IF s = <<>> THEN <<>>
  ELSE IF s[Len(s)] \in Whitespace THEN rstrip(SubSeq(s, 1, Len(s) - 1)) ELSE s

\* str.strip()
strip(s) == rstrip(lstrip(s))

\* s[i:j] with 0-based, end-exclusive Python indices (0 <= i)
Slice(s, i, j) ==
  LET e == IF j > Len(s) THEN Len(s) ELSE j
  IN  IF i >= e THEN <<>> ELSE SubSeq(s, i + 1, e)

\* index (1-based) of the first "\n\n" in s at or after position k, 0 if none
RECURSIVE FindSep(_, _)
FindSep(s, k) ==
  IF k + 1 > Len(s) THEN 0
  ELSE IF s[k] = "\n" /\ s[k + 1] = "\n" THEN k
  ELSE FindSep(s, k + 1)

\* text.split("\n\n")
RECURSIVE split_blank(_)
split_blank(s) ==
  LET i == FindSep(s, 1)
  IN  IF i = 0 THEN <<s>>
      ELSE <<SubSeq(s, 1, i - 1)>> \o split_blank(SubSeq(s, i + 2, Len(s)))

\* "\n\n".join(xs)
RECURSIVE join_blank(_)
join_blank(xs) ==
  IF xs = <<>> THEN <<>>
  ELSE IF Len(xs) = 1 THEN xs[1]
  ELSE xs[1] \o <<"\n", "\n">> \o join_blank(Tail(xs))

\* slices losing the character after each slice (a step of m + 1)
RECURSIVE slices_skip(_, _, _)
slices_skip(p, i, m) ==
  IF i >= Len(p) THEN <<>>
  ELSE <<Slice(p, i, i + m)>> \o slices_skip(p, i + m + 1, m)

\* [p[i:i+m] for i in range(0, len(p), m)]
RECURSIVE slices(_, _, _)
slices(p, i, m) ==
  IF i >= Len(p) THEN <<>>
  ELSE <<Slice(p, i, i + m)>> \o slices(p, i + m, m)

(***************************************************************************)
(* backend/utils.py                                                        *)
(***************************************************************************)
\* chunk_loop forgetting the separator's two characters in the size test
RECURSIVE chunk_loop_no_sep(_, _, _, _, _)
chunk_loop_no_sep(paragraphs, k, chunks, cur, max_chars) ==
  IF k > Len(paragraphs) THEN
    IF cur # <<>> THEN Append(chunks, cur) ELSE chunks
  ELSE
    LET p == strip(paragraphs[k]) IN
    IF p = <<>> THEN chunk_loop_no_sep(paragraphs, k + 1, chunks, cur, max_chars)
    ELSE IF Len(cur) + Len(p) <= max_chars THEN
      chunk_loop_no_sep(paragraphs, k + 1, chunks,
                        IF cur # <<>> THEN cur \o <<"\n", "\n">> \o p ELSE p,
                        max_chars)
    ELSE
      LET flushed == IF cur # <<>> THEN Append(chunks, cur) ELSE chunks IN
      IF Len(p) <= max_chars THEN
        chunk_loop_no_sep(paragraphs, k + 1, flushed, p, max_chars)
      ELSE
        chunk_loop_no_sep(paragraphs, k + 1, flushed \o slices(p, 0, max_chars),
                          <<>>, max_chars)

\* the for-loop of chunk_text_by_chars over paragraphs[k..], with the
\* loop's locals chunks and cur
RECURSIVE chunk_loop(_, _, _, _, _)
chunk_loop(paragraphs, k, chunks, cur, max_chars) ==
  IF k > Len(paragraphs) THEN
    IF cur # <<>> THEN Append(chunks, cur) ELSE chunks
  ELSE
    LET p == strip(paragraphs[k]) IN
    IF p = <<>> THEN chunk_loop(paragraphs, k + 1, chunks, cur, max_chars)
    ELSE IF Len(cur) + Len(p) + 2 <= max_chars THEN
      chunk_loop(paragraphs, k + 1, chunks,
                 IF cur # <<>> THEN cur \o <<"\n", "\n">> \o p ELSE p,
                 max_chars)
    ELSE
      LET flushed == IF cur # <<>> THEN Append(chunks, cur) ELSE chunks IN
      IF Len(p) <= max_chars THEN
        chunk_loop(paragraphs, k + 1, flushed, p, max_chars)
      ELSE
        chunk_loop(paragraphs, k + 1, flushed \o slices(p, 0, max_chars),
                   <<>>, max_chars)

\* chunk_text_by_chars returning a short text whole, without looking at it
chunk_text_by_chars_whole(text, max_chars) ==
  IF Len(text) <= max_chars THEN <<text>>
  ELSE chunk_loop(split_blank(text), 1, <<>>, <<>>, max_chars)

chunk_text_by_chars(text, max_chars) ==
  IF text = <<>> THEN <<>>
  ELSE chunk_loop(split_blank(text), 1, <<>>, <<>>, max_chars)

\* the marker "\n\n[TRUNCATED]"
TruncMarker ==
  <<"\n", "\n", "[", "T", "R", "U", "N", "C", "A", "T", "E", "D", "]">>

\* safe_trim keeping the last max_chars characters instead of the first
safe_trim_tail(text, max_chars) ==
  IF text = <<>> THEN <<>>
  ELSE IF Len(text) <= max_chars THEN text
  ELSE Slice(text, Len(text) - max_chars, Len(text)) \o TruncMarker

safe_trim(text, max_chars) ==
  IF text = <<>> THEN <<>>
  ELSE IF Len(text) <= max_chars THEN text
  ELSE Slice(text, 0, max_chars) \o TruncMarker

(***************************************************************************)
(* Python values.                                                          *)
(***************************************************************************)
None == [t |-> "none"]
Str(s) == [t |-> "str", v |-> s]
PyInt(n) == [t |-> "int", v |-> n]

\* the failure 5-tuple (None, status, body_preview, headers, client_exc)
Failure(status, body_preview, headers, client_exc) ==
  [t |-> "tuple", status |-> status, body_preview |-> body_preview,
   headers |-> headers, client_exc |-> client_exc]

\* isinstance(out, tuple) and out[0] is None
IsFailure(out) == out.t = "tuple"

\* truth value of a Python value
truthy(v) ==
  CASE v.t = "none" -> FALSE
    [] v.t = "str" -> v.v # <<>>
    [] v.t = "int" -> v.v # 0
    [] OTHER -> TRUE

Digit == [d \in 0..9 |-> CASE d = 0 -> "0" [] d = 1 -> "1" [] d = 2 -> "2"
                           [] d = 3 -> "3" [] d = 4 -> "4" [] d = 5 -> "5"
                           [] d = 6 -> "6" [] d = 7 -> "7" [] d = 8 -> "8"
                           [] OTHER -> "9"]

RECURSIVE nat_str(_)
nat_str(n) == IF n < 10 THEN <<Digit[n]>> ELSE nat_str(n \div 10) \o <<Digit[n % 10]>>

\* str(v) for the values of the model
py_str(v) ==
  CASE v.t = "str" -> v.v
    [] v.t = "none" -> <<"N", "o", "n", "e">>
    [] v.t = "int" -> IF v.v < 0 THEN <<"-">> \o nat_str(-v.v) ELSE nat_str(v.v)

\* response headers: a dict, as a sequence of <<name, value>> pairs
RECURSIVE headers_get(_, _)
headers_get(headers, key) ==
  IF headers = <<>> THEN None
  ELSE IF headers[1][1] = key THEN Str(headers[1][2])
  ELSE headers_get(Tail(headers), key)

IsDigit(c) == \E d \in 0..9 : Digit[d] = c
DigitVal(c) == CHOOSE d \in 0..9 : Digit[d] = c

RECURSIVE digits_val(_, _)
digits_val(s, acc) ==
  IF s = <<>> THEN acc ELSE digits_val(Tail(s), 10 * acc + DigitVal(Head(s)))

\* float(s) on the strings of the model: an optionally signed run of digits
\* parses, anything else raises ValueError
py_float(s) ==
  LET neg == s # <<>> /\ Head(s) = "-"
      body == IF neg THEN Tail(s) ELSE s
  IN  IF body # <<>> /\ \A i \in 1..Len(body) : IsDigit(body[i])
      THEN [ok |-> TRUE, v |-> IF neg THEN -digits_val(body, 0) ELSE digits_val(body, 0)]
      ELSE [ok |-> FALSE, v |-> 0]

(***************************************************************************)
(* backend/rewrite.py: configuration.                                      *)
(***************************************************************************)
\* GEMINI_BACKOFF, default "2.0"
GEMINI_BACKOFF == 2

\* the length default of _short_preview
PreviewLength == 2000

\* _short_preview(obj): obj is a str here (bodies are rendered by body_str)
short_preview(s) ==
  IF Len(s) > PreviewLength THEN Slice(s, 0, PreviewLength) \o <<".", ".", ".">>
  ELSE s

\* build_prompt_chunk: the fixed instruction lines are single tokens
build_prompt_chunk(txt, tn) ==
  <<"Rewrite the following text ... do not add new information.\n\n", "Tone: ">>
  \o tn \o <<"\n", "\n", "Original:\n">> \o txt
  \o <<"\n", "\n", "Rewritten:">>

(***************************************************************************)
(* What the remote side can answer.                                        *)
(***************************************************************************)
\* response bodies: the text of a non-JSON body, a JSON object with none of
\* the known keys ({}), a candidates/content/parts payload whose first part
\* is {"text": v}, or {"output": s}
RawBody(s) == [k |-> "raw", s |-> s]
EmptyDict == [k |-> "dict"]
CandText(v) == [k |-> "cand", text |-> v]
OutputBody(s) == [k |-> "output", s |-> s]

\* str(body) / json.dumps(body) for the bodies that reach them: the text
\* itself, or "{}"
body_str(body) ==
  CASE body.k = "raw" -> body.s
    [] body.k = "dict" -> <<"{", "}">>

EmptyHeaders == <<>>
NoHint == <<S2("Date", S1("d"))>>
Hint(v) == <<S2("Date", S1("d")), S2("Retry-After", v)>>

HeaderValues ==
  {EmptyHeaders, NoHint, Hint(S1("3")), Hint(S1("x")), Hint(S2("-", "1"))}

\* what client.models.generate_content does: a response whose .text is a
\* str or None, or an exception
SdkResponses ==
  {[k |-> "text", text |-> Str(S2("b", " "))],
   [k |-> "text", text |-> None],
   [k |-> "raise", repr |-> S1("E")]}

\* what requests.post does: an HTTP response or an exception
HttpOk ==
  {[k |-> "http", status |-> 200, body |-> b, headers |-> NoHint] :
     b \in {CandText(Str(S2(" ", "b"))), CandText(None), EmptyDict}}

HttpErrors ==
  {[k |-> "http", status |-> 429, body |-> RawBody(S1("e")), headers |-> h] :
     h \in HeaderValues}
  \cup
  {[k |-> "http", status |-> st, body |-> RawBody(S1("e")), headers |-> h] :
     st \in {404, 500}, h \in {EmptyHeaders, NoHint}}

HttpResponses == HttpOk \cup HttpErrors \cup {[k |-> "raise", msg |-> S1("E")]}

(***************************************************************************)
(* backend/rewrite.py: the remote call adapter.                            *)
(***************************************************************************)
\* _call_gemini_sdk_once once the client exists (client None when the SDK
\* is absent)
call_gemini_sdk_once(available, resp) ==
  IF ~available THEN None
  ELSE IF resp.k = "raise"
       THEN Failure(None, short_preview(resp.repr), EmptyHeaders, Str(resp.repr))
       ELSE Str(py_str(resp.text))

\* _post_gemini_rest: (ok, status, body, headers)
post_gemini_rest(resp) ==
  IF resp.k = "raise"
  THEN [ok |-> FALSE, status |-> None,
        body |-> RawBody(<<"e", "x", "c", "e", "p", "t", "i", "o", "n", ":">> \o resp.msg),
        headers |-> EmptyHeaders]
  ELSE [ok |-> ~(400 <= resp.status /\ resp.status < 600),
        status |-> PyInt(resp.status), body |-> resp.body, headers |-> resp.headers]

\* _parse_gemini_rest_result
parse_gemini_rest_result(body) ==
  CASE body.k = "cand" -> body.text
    [] body.k = "output" -> Str(body.s)
    [] OTHER -> Str(body_str(body))

\* _call_gemini_rest_once
call_gemini_rest_once(resp) ==
  LET r == post_gemini_rest(resp)
  IN  IF r.ok THEN parse_gemini_rest_result(r.body)
      ELSE Failure(r.status, short_preview(body_str(r.body)), r.headers, None)

\* sdk_dispatch falling back to REST when the SDK path returned a failure
sdk_dispatch_fallback_on_failure(available, out) ==
  IF available THEN
    IF out = None \/ IsFailure(out) THEN [go |-> "rest", out |-> None]
    ELSE [go |-> "return", out |-> Str(py_str(out))]
  ELSE [go |-> "rest", out |-> None]

\* sdk_dispatch posting over REST whatever the SDK path returned
sdk_dispatch_always_rest(available, out) == [go |-> "rest", out |-> None]

\* call_gemini_once, lines 183-190: what it does with the SDK path's result:
\* fall through to REST ("rest") or return a value
sdk_dispatch(available, out) ==
  IF available THEN
    IF out = None THEN [go |-> "rest", out |-> None]
    ELSE IF IsFailure(out) THEN [go |-> "return", out |-> out]
    ELSE [go |-> "return", out |-> Str(py_str(out))]
  ELSE [go |-> "rest", out |-> None]

(***************************************************************************)
(* backend/rewrite.py: the retry controller's evaluation of one result.    *)
(***************************************************************************)
StatusIs(status, n) == status.t = "int" /\ status.v = n

\* retry_decision without the client-error return of lines 216-217
retry_decision_retry_4xx(out, attempt, tries, backoff) ==
  IF IsFailure(out) THEN
    IF attempt < tries THEN [act |-> "sleep", wait |-> backoff * attempt]
    ELSE [act |-> "return", wait |-> 0]
  ELSE [act |-> "return", wait |-> 0]

\* retry_decision giving up one attempt early (attempt + 1 < tries)
retry_decision_early_stop(out, attempt, tries, backoff) ==
  IF IsFailure(out) THEN
    IF StatusIs(out.status, 429) /\ out.headers # <<>> THEN
      [act |-> "sleep", wait |-> backoff * attempt]
    ELSE IF truthy(out.status) /\ 400 <= out.status.v /\ out.status.v < 500 THEN
      [act |-> "return", wait |-> 0]
    ELSE IF attempt + 1 < tries THEN
      [act |-> "sleep", wait |-> backoff * attempt]
    ELSE [act |-> "return", wait |-> 0]
  ELSE [act |-> "return", wait |-> 0]

\* retry_decision never reading Retry-After
retry_decision_ignore_hint(out, attempt, tries, backoff) ==
  IF IsFailure(out) THEN
    IF StatusIs(out.status, 429) /\ out.headers # <<>> THEN
      [act |-> "sleep", wait |-> backoff * attempt]
    ELSE IF truthy(out.status) /\ 400 <= out.status.v /\ out.status.v < 500 THEN
      [act |-> "return", wait |-> 0]
    ELSE IF attempt < tries THEN
      [act |-> "sleep", wait |-> backoff * attempt]
    ELSE [act |-> "return", wait |-> 0]
  ELSE [act |-> "return", wait |-> 0]

\* retry_decision sleeping a constant backoff between attempts
retry_decision_constant_backoff(out, attempt, tries, backoff) ==
  IF IsFailure(out) THEN
    IF StatusIs(out.status, 429) /\ out.headers # <<>> THEN
      LET ra == headers_get(out.headers, "Retry-After")
          f == IF truthy(ra) THEN py_float(ra.v) ELSE [ok |-> FALSE, v |-> 0]
      IN  [act |-> "sleep",
           wait |-> IF truthy(ra) /\ f.ok THEN f.v ELSE backoff * attempt]
    ELSE IF truthy(out.status) /\ 400 <= out.status.v /\ out.status.v < 500 THEN
      [act |-> "return", wait |-> 0]
    ELSE IF attempt < tries THEN
      [act |-> "sleep", wait |-> backoff]
    ELSE [act |-> "return", wait |-> 0]
  ELSE [act |-> "return", wait |-> 0]

\* retry_decision without the success return of lines 222-223: any result
\* of an attempt that is not the last is slept on and retried
retry_decision_no_success_return(out, attempt, tries, backoff) ==
  IF attempt < tries THEN [act |-> "sleep", wait |-> backoff * attempt]
  ELSE [act |-> "return", wait |-> 0]

\* lines 205-223: sleep-and-continue with a wait, or return out
retry_decision(out, attempt, tries, backoff) ==
  IF IsFailure(out) THEN
    IF StatusIs(out.status, 429) /\ out.headers # <<>> THEN
      LET ra == headers_get(out.headers, "Retry-After")
          f == IF truthy(ra) THEN py_float(ra.v) ELSE [ok |-> FALSE, v |-> 0]
      IN  [act |-> "sleep",
           wait |-> IF truthy(ra) /\ f.ok THEN f.v ELSE backoff * attempt]
    ELSE IF truthy(out.status) /\ 400 <= out.status.v /\ out.status.v < 500 THEN
      [act |-> "return", wait |-> 0]
    ELSE IF attempt < tries THEN
      [act |-> "sleep", wait |-> backoff * attempt]
    ELSE [act |-> "return", wait |-> 0]
  ELSE [act |-> "return", wait |-> 0]

(***************************************************************************)
(* backend/rewrite.py: what rewrite_text does with one chunk's result.     *)
(***************************************************************************)
\* chunk_result substituting the failure's body preview for the chunk
chunk_result_body_for_chunk(out, idx, p) ==
  IF IsFailure(out) THEN
    [raises |-> FALSE, output |-> out.body_preview, success |-> FALSE,
     diag |-> <<[part |-> idx, status |-> out.status,
                 body_preview |-> out.body_preview, headers |-> out.headers,
                 fallback_info |-> out.client_exc]>>]
  ELSE IF out.t = "str" THEN
    [raises |-> FALSE, output |-> strip(out.v), success |-> TRUE, diag |-> <<>>]
  ELSE
    [raises |-> TRUE, output |-> <<>>, success |-> FALSE, diag |-> <<>>]

\* chunk_result appending the rewritten text without .strip()
chunk_result_no_strip(out, idx, p) ==
  IF IsFailure(out) THEN
    [raises |-> FALSE, output |-> p, success |-> FALSE,
     diag |-> <<[part |-> idx, status |-> out.status,
                 body_preview |-> out.body_preview, headers |-> out.headers,
                 fallback_info |-> out.client_exc]>>]
  ELSE IF out.t = "str" THEN
    [raises |-> FALSE, output |-> out.v, success |-> TRUE, diag |-> <<>>]
  ELSE
    [raises |-> TRUE, output |-> <<>>, success |-> FALSE, diag |-> <<>>]

\* chunk_result numbering the parts from 1
chunk_result_one_based(out, idx, p) ==
  IF IsFailure(out) THEN
    [raises |-> FALSE, output |-> p, success |-> FALSE,
     diag |-> <<[part |-> idx + 1, status |-> out.status,
                 body_preview |-> out.body_preview, headers |-> out.headers,
                 fallback_info |-> out.client_exc]>>]
  ELSE IF out.t = "str" THEN
    [raises |-> FALSE, output |-> strip(out.v), success |-> TRUE, diag |-> <<>>]
  ELSE
    [raises |-> TRUE, output |-> <<>>, success |-> FALSE, diag |-> <<>>]

\* chunk_result raising on a failed chunk instead of falling back
chunk_result_raise_on_failure(out, idx, p) ==
  IF IsFailure(out) THEN
    [raises |-> TRUE, output |-> <<>>, success |-> FALSE, diag |-> <<>>]
  ELSE IF out.t = "str" THEN
    [raises |-> FALSE, output |-> strip(out.v), success |-> TRUE, diag |-> <<>>]
  ELSE
    [raises |-> TRUE, output |-> <<>>, success |-> FALSE, diag |-> <<>>]

\* lines 247-261: the chunk's contribution, the diagnostics entry it adds (if
\* any), whether it counts as a success, and whether out.strip() raises
chunk_result(out, idx, p) ==
  IF IsFailure(out) THEN
    [raises |-> FALSE, output |-> p, success |-> FALSE,
     diag |-> <<[part |-> idx, status |-> out.status,
                 body_preview |-> out.body_preview, headers |-> out.headers,
                 fallback_info |-> out.client_exc]>>]
  ELSE IF out.t = "str" THEN
    [raises |-> FALSE, output |-> strip(out.v), success |-> TRUE, diag |-> <<>>]
  ELSE
    [raises |-> TRUE, output |-> <<>>, success |-> FALSE, diag |-> <<>>]

\* failure_flag without the negation
failure_flag_not_negated(any_success) == any_success

\* line 264: the flag returned with the text
failure_flag(any_success) == ~any_success

(***************************************************************************)
(* Inputs.                                                                 *)
(***************************************************************************)
RECURSIVE Rep(_, _)
Rep(c, n) == IF n = 0 THEN <<>> ELSE <<c>> \o Rep(c, n - 1)

\* texts of zero, one, two and three chunks; the last is longer than TrimMax
Texts ==
  {<<>>,
   <<" ", "\n">>,
   <<" ", "a">>,
   <<"a", "a", "a", "\n", "\n", "b", "b">>,
   Rep("a", ChunkMax + 1),
   <<"a">> \o Rep(" ", TrimMax)}

Tones == {<<"N">>, <<>>}

TriesValues == (-1) .. MaxTries

(***************************************************************************)
(* State.                                                                  *)
(***************************************************************************)
VARIABLES
  pc,           \* where the run is: "idle", "loop", "once", "evaluate",
                \* "sleep", "collect", "done", "raised"
  available,    \* GOOGLE_GENAI_AVAILABLE
  client,       \* _genai_client_singleton has its client attribute
  tries,        \* GEMINI_TRIES
  text,         \* rewrite_text's argument text
  tone,         \* rewrite_text's argument tone
  parts,        \* rewrite_text: parts
  idx,          \* rewrite_text: number of chunks processed (enumerate's idx)
  outputs,      \* rewrite_text: outputs
  diagnostics,  \* rewrite_text: diagnostics
  any_success,  \* rewrite_text: any_success
  prompt,       \* the prompt of the chunk being processed
  attempt,      \* call_gemini_with_retry: attempt
  last_resp,    \* call_gemini_with_retry: last_resp
  out,          \* the latest result (of call_gemini_once, then of the retry)
  wait,         \* the argument of the pending time.sleep
  result,       \* what rewrite_text returned
  exc,          \* the exception that left rewrite_text
  \* history of the current call_gemini_with_retry / call_gemini_once
  calls,        \* adapter invocations so far
  slept,        \* completed time.sleep calls so far
  all_client,   \* every adapter result so far was a 4xx failure other than 429
  all_transient,\* every adapter result so far was a 5xx or status-less failure
  once_out,     \* what the latest call_gemini_once returned
  sdk_reqs,     \* generate_content calls of the latest call_gemini_once
  http_reqs,    \* HTTP POSTs of the latest call_gemini_once
  sdk_raised,   \* the native path raised in the latest call_gemini_once
  rets,         \* per processed chunk: what call_gemini_with_retry returned
  call          \* a call of backend/utils.py on its own: function, arguments,
                \* return value (no such call during a rewrite_text run)

vars == <<pc, available, client, tries, text, tone, parts, idx, outputs,
          diagnostics, any_success, prompt, attempt, last_resp, out, wait,
          result, exc, calls, slept, all_client, all_transient, once_out, sdk_reqs, http_reqs,
          sdk_raised, rets, call>>

\* what no step of a rewrite_text run changes
config == <<available, tries, call>>
locals == <<text, tone, parts, idx, outputs, diagnostics, any_success, rets>>
history == <<calls, slept, all_client, all_transient>>
retry == <<prompt, attempt, last_resp, history>>
once == <<once_out, sdk_reqs, http_reqs, sdk_raised>>

NoCall == [fn |-> "none", text |-> <<>>, n |-> 0, first |-> <<>>, ret |-> <<>>]

\* nothing has run yet
Fresh ==
  /\ client = FALSE
  /\ text = <<>>
  /\ tone = <<>>
  /\ parts = <<>>
  /\ idx = 0
  /\ outputs = <<>>
  /\ diagnostics = <<>>
  /\ any_success = FALSE
  /\ prompt = <<>>
  /\ attempt = 0
  /\ last_resp = None
  /\ out = None
  /\ wait = 0
  /\ result = None
  /\ exc = "none"
  /\ calls = 0
  /\ slept = 0
  /\ all_client = TRUE
  /\ all_transient = TRUE
  /\ once_out = None
  /\ sdk_reqs = 0
  /\ http_reqs = 0
  /\ sdk_raised = FALSE
  /\ rets = <<>>

Init ==
  /\ pc = "idle"
  /\ available \in BOOLEAN
  /\ tries \in TriesValues
  /\ call = NoCall
  /\ Fresh

\* classes of adapter results, for the history
IsClientError(o) ==
  IsFailure(o) /\ o.status.t = "int" /\ o.status.v \in 400..499 /\ o.status.v # 429
IsRateLimit(o) == IsFailure(o) /\ o.status.t = "int" /\ o.status.v = 429
IsTransient(o) ==
  IsFailure(o) /\ (o.status.t = "none" \/ (o.status.t = "int" /\ o.status.v \in 500..599))

\* rewrite_text, lines 230-234
rewrite_text_begin(txt, tn) ==
  /\ pc = "idle"
  /\ text' = txt
  /\ tone' = tn
  /\ parts' = chunk_text_by_chars(safe_trim(txt, TrimMax), ChunkMax)
  /\ outputs' = <<>>
  /\ diagnostics' = <<>>
  /\ any_success' = FALSE
  /\ idx' = 0
  /\ pc' = "loop"
  /\ UNCHANGED <<config, client, retry, once, out, wait, result, exc, rets>>

\* rewrite_text, lines 236-238 and call_gemini_with_retry, lines 202-203: the
\* next chunk's prompt is built and the retry loop entered; an empty
\* range(1, tries + 1) returns last_resp (None) at once
rewrite_next_chunk ==
  /\ pc = "loop"
  /\ idx < Len(parts)
  /\ prompt' = build_prompt_chunk(parts[idx + 1], tone)
  /\ last_resp' = None
  /\ calls' = 0
  /\ slept' = 0
  /\ all_client' = TRUE
  /\ all_transient' = TRUE
  /\ attempt' = 1
  /\ IF 1 <= tries
     THEN pc' = "once" /\ out' = out
     ELSE pc' = "collect" /\ out' = None
  /\ UNCHANGED <<config, client, locals, once, wait, result, exc>>

\* call_gemini_once, SDK present: genai.Client() raises on first use; nothing
\* between it and rewrite_text's caller catches the exception
sdk_client_raises ==
  /\ pc = "once"
  /\ available
  /\ ~client
  /\ pc' = "raised"
  /\ exc' = "client construction"
  /\ sdk_reqs' = 0
  /\ http_reqs' = 0
  /\ sdk_raised' = FALSE
  /\ UNCHANGED <<config, client, locals, retry, out, wait, result, once_out>>

\* call_gemini_once: one invocation.  resp is what generate_content does,
\* hresp what requests.post does if the REST path is taken
call_gemini_once(resp, hresp) ==
  /\ pc = "once"
  /\ LET sdk == call_gemini_sdk_once(available, resp)
         d == sdk_dispatch(available, sdk)
         r == IF d.go = "rest" THEN call_gemini_rest_once(hresp) ELSE d.out
     IN  /\ out' = r
         /\ once_out' = r
         /\ calls' = calls + 1
         /\ all_client' = (all_client /\ IsClientError(r))
         /\ all_transient' = (all_transient /\ IsTransient(r))
         /\ sdk_reqs' = IF available THEN 1 ELSE 0
         /\ http_reqs' = IF d.go = "rest" THEN 1 ELSE 0
         /\ sdk_raised' = (available /\ resp.k = "raise")
  /\ client' = (client \/ available)
  /\ pc' = "evaluate"
  /\ UNCHANGED <<config, locals, prompt, attempt, last_resp, slept, wait,
                 result, exc>>

\* call_gemini_with_retry, lines 205-223
retry_evaluate ==
  /\ pc = "evaluate"
  /\ LET d == retry_decision(out, attempt, tries, GEMINI_BACKOFF)
     IN  /\ last_resp' = IF IsFailure(out) THEN out ELSE last_resp
         /\ IF d.act = "sleep"
            THEN pc' = "sleep" /\ wait' = d.wait
            ELSE pc' = "collect" /\ wait' = wait
  /\ UNCHANGED <<config, client, locals, prompt, attempt, history, once,
                 out, result, exc>>

\* time.sleep(wait); continue.  A negative wait makes time.sleep raise
\* ValueError; after the last attempt the loop ends and last_resp is returned
retry_sleep ==
  /\ pc = "sleep"
  /\ IF wait < 0
     THEN /\ pc' = "raised"
          /\ exc' = "sleep"
          /\ UNCHANGED <<attempt, slept, out>>
     ELSE /\ slept' = slept + 1
          /\ attempt' = IF attempt + 1 <= tries THEN attempt + 1 ELSE attempt
          /\ exc' = exc
          /\ IF attempt + 1 <= tries
             THEN pc' = "once" /\ out' = out
             ELSE pc' = "collect" /\ out' = last_resp
  /\ UNCHANGED <<config, client, locals, prompt, last_resp, calls,
                 all_client, all_transient, once, wait, result>>

\* rewrite_text, lines 247-261
rewrite_collect ==
  /\ pc = "collect"
  /\ LET c == chunk_result(out, idx, parts[idx + 1])
     IN  IF c.raises
         THEN /\ pc' = "raised"
              /\ exc' = "strip"
              /\ UNCHANGED <<idx, outputs, diagnostics, any_success, rets>>
         ELSE /\ outputs' = Append(outputs, c.output)
              /\ diagnostics' = diagnostics \o c.diag
              /\ any_success' = (any_success \/ c.success)
              /\ rets' = Append(rets, out)
              /\ idx' = idx + 1
              /\ pc' = "loop"
              /\ exc' = exc
  /\ UNCHANGED <<config, client, text, tone, parts, retry, once, out, wait,
                 result>>

\* rewrite_text, lines 263-264
rewrite_finish ==
  /\ pc = "loop"
  /\ idx = Len(parts)
  /\ result' = [text |-> join_blank(outputs), flag |-> failure_flag(any_success),
                diagnostics |-> diagnostics]
  /\ pc' = "done"
  /\ UNCHANGED <<config, client, locals, retry, once, out, wait, exc>>

Next ==
  \/ \E txt \in Texts, tn \in Tones : rewrite_text_begin(txt, tn)
  \/ rewrite_next_chunk
  \/ sdk_client_raises
  \/ \E resp \in SdkResponses, hresp \in HttpResponses : call_gemini_once(resp, hresp)
  \/ retry_evaluate
  \/ retry_sleep
  \/ rewrite_collect
  \/ rewrite_finish

Spec == Init /\ [][Next]_vars

\* rewrite_text is sequential code: an enabled step is eventually taken
SpecFair == Spec /\ WF_vars(Next)

(***************************************************************************)
(* backend/utils.py on its own: every text up to MaxTextLen characters     *)
(* and every limit up to MaxChars.                                         *)
(***************************************************************************)
UtilChars == {"a", "b", " ", "\n"}

RECURSIVE SeqsUpTo(_, _)
SeqsUpTo(S, n) ==
  IF n = 0 THEN {<<>>}
  ELSE LET shorter == SeqsUpTo(S, n - 1)
       IN  shorter \cup {Append(q, c) : q \in {x \in shorter : Len(x) = n - 1}, c \in S}

UtilTexts == SeqsUpTo(UtilChars, MaxTextLen)

UtilInit ==
  /\ pc = "utils"
  /\ available = FALSE
  /\ tries = 1
  /\ call \in {[fn |-> "input", text |-> txt, n |-> n, first |-> <<>>, ret |-> <<>>] :
                 txt \in UtilTexts, n \in 0..MaxChars}
  /\ Fresh

rest == <<pc, available, client, tries, text, tone, parts, idx, outputs,
          diagnostics, any_success, prompt, attempt, last_resp, out, wait,
          result, exc, calls, slept, all_client, all_transient, once_out,
          sdk_reqs, http_reqs, sdk_raised, rets>>

\* chunk_text_by_chars(text, max_chars=n), n > 0
chunk_call ==
  /\ call.fn = "input"
  /\ call.n > 0
  /\ call' = [call EXCEPT !.fn = "chunk",
                           !.ret = chunk_text_by_chars(call.text, call.n)]
  /\ UNCHANGED rest

\* safe_trim(text, max_chars=n)
trim_call ==
  /\ call.fn = "input"
  /\ call' = [call EXCEPT !.fn = "trim", !.ret = safe_trim(call.text, call.n)]
  /\ UNCHANGED rest

\* safe_trim(first, max_chars=n) on what safe_trim returned
trim_again_call ==
  /\ call.fn = "trim"
  /\ call' = [call EXCEPT !.fn = "trim2", !.first = call.ret,
                           !.ret = safe_trim(call.ret, call.n)]
  /\ UNCHANGED rest

UtilNext ==
  \/ chunk_call
  \/ trim_call
  \/ trim_again_call

SpecUtils == UtilInit /\ [][UtilNext]_vars

(***************************************************************************)
(* utils/audio_utils.py: the sentence-boundary chunk_text_by_chars, one     *)
(* loop iteration per step, on every text over SentChars up to MaxSentLen   *)
(* and every max_chars in 1..MaxSentChars.                                  *)
(***************************************************************************)
SentChars == {"a", " ", ".", "!", "?"}
SentTexts == SeqsUpTo(SentChars, MaxSentLen)

\* text.rfind(ch, start, end): the highest 0-based index in [start, end)
\* holding ch, -1 if none
RECURSIVE rfind(_, _, _, _)
rfind(s, ch, start, end) ==
  IF end <= start THEN -1
  ELSE IF s[end] = ch THEN end - 1
  ELSE rfind(s, ch, start, end - 1)

\* lines 25-34: the end of the chunk that starts at start
sentence_end(s, start, max_chars) ==
  LET n == Len(s)
      end == IF start + max_chars < n THEN start + max_chars ELSE n
      dot == rfind(s, ".", start, end)
      bang == IF dot = -1 THEN rfind(s, "!", start, end) ELSE dot
      sep_pos == IF bang = -1 THEN rfind(s, "?", start, end) ELSE bang
  IN  IF end < n /\ sep_pos # -1 /\ sep_pos > start THEN sep_pos + 1 ELSE end

SentInit ==
  /\ pc = "sentence"
  /\ available = FALSE
  /\ tries = 1
  /\ call \in {[fn |-> "input", text |-> txt, n |-> m, start |-> 0, prev |-> 0,
                iter |-> 0, ret |-> <<>>] :
                 txt \in SentTexts, m \in 1..MaxSentChars}
  /\ Fresh

\* lines 17-22: strip, the early return of [], the loop's initial state
sentence_begin ==
  /\ call.fn = "input"
  /\ LET t == strip(call.text)
     IN  call' = [call EXCEPT !.fn = IF t = <<>> THEN "returned" ELSE "loop",
                              !.text = t]
  /\ UNCHANGED rest

\* lines 23-36: one iteration of while start < n
sentence_iterate ==
  /\ call.fn = "loop"
  /\ call.start < Len(call.text)
  /\ LET end == sentence_end(call.text, call.start, call.n)
     IN  call' = [call EXCEPT !.ret = Append(@, strip(Slice(call.text, call.start, end))),
                              !.prev = call.start,
                              !.start = end,
                              !.iter = @ + 1]
  /\ UNCHANGED rest

\* line 37
sentence_return ==
  /\ call.fn = "loop"
  /\ call.start >= Len(call.text)
  /\ call' = [call EXCEPT !.fn = "returned"]
  /\ UNCHANGED rest

SentNext ==
  \/ sentence_begin
  \/ sentence_iterate
  \/ sentence_return

\* the loop is sequential code: an enabled step is eventually taken
SpecSentence == SentInit /\ [][SentNext]_vars /\ WF_vars(SentNext)

(***************************************************************************)
(* backend/tts.py: synthesize_gtts_bytes on a str, one step per statement   *)
(* group.  A segment is modelled by the chunk it voices, audio by the       *)
(* sequence of its segments.                                                *)
(***************************************************************************)
TtsChars == {"a", "b", "\n"}
TtsTexts == SeqsUpTo(TtsChars, MaxTtsLen)

\* attempt_outcome treating a failed attempt as no failure
attempt_outcome_swallow(ok, chunk, segments, att, chunk_retries) ==
  IF ok THEN [segments |-> Append(segments, chunk), last_exc |-> FALSE,
              again |-> FALSE]
  ELSE [segments |-> segments, last_exc |-> FALSE,
        again |-> att < chunk_retries]

\* lines 74-87: the body of one attempt.  ok: _synthesize_chunk_to_segment
\* returned a segment; otherwise it raised TTSException (lines 28-29)
attempt_outcome(ok, chunk, segments, att, chunk_retries) ==
  IF ok THEN [segments |-> Append(segments, chunk), last_exc |-> FALSE,
              again |-> FALSE]
  ELSE [segments |-> segments, last_exc |-> TRUE,
        again |-> att < chunk_retries]

NoAudio == << <<"-">> >>

TtsInit ==
  /\ pc = "tts"
  /\ available = FALSE
  /\ tries = 1
  /\ call \in {[fn |-> "input", text |-> txt, retries |-> r, chunks |-> <<>>,
                idx |-> 0, attempt |-> 0, tried |-> 0, touched |-> 0,
                last_exc |-> FALSE, segments |-> <<>>, why |-> "none",
                audio |-> NoAudio] :
                 txt \in TtsTexts, r \in 0..MaxRetries}
  /\ Fresh

\* lines 61-69
tts_begin ==
  /\ call.fn = "input"
  /\ LET t == strip(call.text)
         cs == chunk_text_by_chars(t, TtsChunkMax)
     IN  call' = IF t = <<>> THEN [call EXCEPT !.fn = "raised", !.why = "empty"]
                 ELSE IF cs = <<>>
                   THEN [call EXCEPT !.fn = "raised", !.why = "no chunks"]
                 ELSE [call EXCEPT !.fn = "chunk", !.text = t, !.chunks = cs]
  /\ UNCHANGED rest

\* lines 71-73: the next chunk; an empty range makes no attempt
tts_next_chunk ==
  /\ call.fn = "chunk"
  /\ call.idx < Len(call.chunks)
  /\ call' = [call EXCEPT !.fn = IF 1 <= call.retries THEN "attempt" ELSE "after",
                           !.last_exc = FALSE, !.attempt = 1, !.tried = 0]
  /\ UNCHANGED rest

\* lines 74-87: one attempt, with the sleep that follows it
tts_attempt(ok) ==
  /\ call.fn = "attempt"
  /\ LET o == attempt_outcome(ok, call.chunks[call.idx + 1], call.segments,
                              call.attempt, call.retries)
     IN  call' = [call EXCEPT !.segments = o.segments,
                              !.last_exc = o.last_exc,
                              !.tried = @ + 1,
                              !.touched = call.idx + 1,
                              !.attempt = IF o.again THEN @ + 1 ELSE @,
                              !.fn = IF o.again THEN "attempt" ELSE "after"]
  /\ UNCHANGED rest

\* lines 88-90
tts_after_chunk ==
  /\ call.fn = "after"
  /\ call' = IF call.last_exc
             THEN [call EXCEPT !.fn = "raised", !.why = "chunk"]
             ELSE [call EXCEPT !.fn = "chunk", !.idx = @ + 1]
  /\ UNCHANGED rest

\* lines 92-107: concatenation and export
tts_finish(export_ok) ==
  /\ call.fn = "chunk"
  /\ call.idx = Len(call.chunks)
  /\ call' = IF call.segments = <<>>
             THEN [call EXCEPT !.fn = "raised", !.why = "no segments"]
             ELSE IF export_ok
               THEN [call EXCEPT !.fn = "returned", !.audio = call.segments]
             ELSE [call EXCEPT !.fn = "raised", !.why = "export"]
  /\ UNCHANGED rest

TtsNext ==
  \/ tts_begin
  \/ tts_next_chunk
  \/ \E ok \in BOOLEAN : tts_attempt(ok)
  \/ tts_after_chunk
  \/ \E export_ok \in BOOLEAN : tts_finish(export_ok)

SpecTts == TtsInit /\ [][TtsNext]_vars
(***************************************************************************)
(* Properties.                                                             *)
(***************************************************************************)
\* the chunks rewrite_text works on
TrimmedChunks == chunk_text_by_chars(safe_trim(text, TrimMax), ChunkMax)

\* the processed chunks that ended in Failure (1-based positions)
FailedChunks == {i \in 1..Len(rets) : IsFailure(rets[i])}

\* C1: for every tries >= 1, while every adapter result of a
\* call_gemini_with_retry has been a 4xx failure other than 429, the adapter
\* has been invoked exactly once, nothing has been slept, no further attempt
\* or sleep is pending, and what is returned is that failure.
C1_ClientErrorCalledOnce ==
  (tries >= 1 /\ calls >= 1 /\ all_client) =>
    /\ calls = 1
    /\ slept = 0
    /\ pc \notin {"once", "sleep"}
    /\ (pc = "collect" => out = once_out /\ IsClientError(out))

C1_Witness ==
  /\ pc = "collect" /\ tries = MaxTries /\ calls = 1 /\ all_client
  /\ StatusIs(out.status, 404)

\* C2: for every tries >= 1, when call_gemini_with_retry returns after only
\* transient failures (5xx, or no status: network or native-client
\* exception), the adapter was invoked exactly tries times and the value
\* returned is the failure of the last invocation.
C2_TransientExhaustsTries ==
  (tries >= 1 /\ pc = "collect" /\ all_transient) =>
    /\ calls = tries
    /\ out = once_out
    /\ IsTransient(out)

C2_Witness ==
  /\ pc = "collect" /\ tries = MaxTries /\ calls = MaxTries /\ all_transient
  /\ out.status = None /\ slept = MaxTries - 1

\* C3: call_gemini_with_retry never returns a 429 failure from an attempt that
\* is not the last one, whatever the headers of the failure are.
C3_RateLimitAlwaysRetried ==
  (tries >= 1 /\ pc = "collect" /\ IsRateLimit(once_out)) => calls >= tries

\* C4: rewrite_text never raises, whatever the adapter does (stated for
\* tries >= 1, so that what is refuted is a remote failure, not the
\* configuration).
C4_NeverRaises == tries >= 1 => pc # "raised"

\* C5: the flag rewrite_text returns is true if and only if no chunk ended
\* in Success.
C5_FlagIffNoSuccess ==
  pc = "done" =>
    /\ Len(rets) = Len(parts)
    /\ (result.flag <=> \A i \in 1..Len(rets) : IsFailure(rets[i]))

C5_Witness ==
  /\ pc = "done" /\ ~result.flag
  /\ Len(parts) = 2 /\ Len(result.diagnostics) = 1

\* C6: when every chunk ended in Failure, rewrite_text returns flag = true,
\* the chunks of the trimmed input joined in order with the blank-line
\* separator, and one diagnostics entry per chunk.
C6_AllFailedIsIdentity ==
  (pc = "done" /\ \A i \in 1..Len(rets) : IsFailure(rets[i])) =>
    /\ result.flag
    /\ result.text = join_blank(TrimmedChunks)
    /\ Len(result.diagnostics) = Len(TrimmedChunks)

C6_Witness ==
  /\ pc = "done" /\ result.flag /\ Len(text) > TrimMax
  /\ Len(parts) = 3 /\ Len(result.diagnostics) = 3

\* C7: the text rewrite_text returns is the blank-line join of one
\* contribution per chunk, in chunk order: the stripped rewritten text of a
\* chunk that succeeded, the original chunk verbatim of one that failed.
Contribution(i) ==
  IF IsFailure(rets[i]) THEN TrimmedChunks[i] ELSE strip(rets[i].v)

C7_Composition ==
  pc = "done" =>
    /\ Len(rets) = Len(TrimmedChunks)
    /\ result.text = join_blank([i \in 1..Len(rets) |-> Contribution(i)])

C7_Witness ==
  /\ pc = "done" /\ Len(parts) = 3 /\ ~result.flag
  /\ FailedChunks = {1, 3}
  /\ rets[2].v # strip(rets[2].v)

\* C8: at every point of a run the diagnostics hold exactly one entry per
\* processed chunk that ended in Failure and none for the others, each
\* entry's part is the (0-based) index of its chunk, the parts are strictly
\* increasing, and no step removes or changes an entry.
DiagnosticsMatch ==
  /\ Len(diagnostics) = Cardinality(FailedChunks)
  /\ \A k \in 1..Len(diagnostics) :
       /\ diagnostics[k].part + 1 \in FailedChunks
       /\ diagnostics[k].status = rets[diagnostics[k].part + 1].status
       /\ diagnostics[k].body_preview = rets[diagnostics[k].part + 1].body_preview
       /\ diagnostics[k].headers = rets[diagnostics[k].part + 1].headers
       /\ diagnostics[k].fallback_info = rets[diagnostics[k].part + 1].client_exc
  /\ \A k \in 1..(Len(diagnostics) - 1) :
       diagnostics[k].part < diagnostics[k + 1].part

DiagnosticsKept ==
  /\ Len(diagnostics') >= Len(diagnostics)
  /\ \A k \in 1..Len(diagnostics) : diagnostics'[k] = diagnostics[k]

C8_Diagnostics == []DiagnosticsMatch /\ [][DiagnosticsKept]_vars

C8_Witness ==
  /\ pc = "once" /\ idx = 2 /\ Len(diagnostics) = 1
  /\ diagnostics[1].part = 1 /\ ~IsFailure(rets[1])

\* C9 as claimed: when the native path raises during a call, the request
\* goes out over HTTP and the native failure is not what is returned.
C9_NativeFailureFallsBackToHttp ==
  (pc = "evaluate" /\ sdk_raised) =>
    /\ http_reqs = 1
    /\ ~(IsFailure(out) /\ out.client_exc # None)

\* C9, amended: when the native call raises, call_gemini_once makes no HTTP
\* request and returns the native failure (no status, no headers, the
\* exception text); the HTTP path is taken exactly when the SDK is absent.
C9_NativeFailureReturned ==
  /\ (pc = "evaluate" /\ sdk_raised) =>
       /\ http_reqs = 0
       /\ IsFailure(out) /\ out.status = None /\ out.headers = <<>>
       /\ out.client_exc # None
  /\ pc = "evaluate" => (http_reqs = 1 <=> ~available)

C9_Witness == pc = "evaluate" /\ sdk_raised /\ IsFailure(out)

\* C10: an invocation of call_gemini_once never makes more than one remote
\* request (never both paths, never a repeat), and one that has returned has
\* made exactly one.
C10_OneRequestPerInvocation ==
  /\ sdk_reqs + http_reqs <= 1
  /\ pc = "evaluate" => sdk_reqs + http_reqs = 1

C10_Witness ==
  /\ pc = "evaluate" /\ calls = 2 /\ http_reqs = 1 /\ sdk_reqs = 0
  /\ IsFailure(out)

\* C11: every value call_gemini_once returns is a plain text string or a
\* failure record, whatever the shape of a 2xx payload.
C11_ReturnsTextOrFailure ==
  pc = "evaluate" => (out.t = "str" \/ IsFailure(out))

\* C12: for every tries, 0 and negative values included, what
\* call_gemini_with_retry returns is a text or a failure record.
C12_RetryReturnsTextOrFailure ==
  pc = "collect" => (out.t = "str" \/ IsFailure(out))

RECURSIVE Concat(_)
Concat(xs) == IF xs = <<>> THEN <<>> ELSE Head(xs) \o Concat(Tail(xs))

\* s with its whitespace removed
RECURSIVE NoWhitespace(_)
NoWhitespace(s) ==
  IF s = <<>> THEN <<>>
  ELSE IF Head(s) \in Whitespace THEN NoWhitespace(Tail(s))
  ELSE <<Head(s)>> \o NoWhitespace(Tail(s))

\* C13: every chunk chunk_text_by_chars(T, M) returns, M > 0, is at most M
\* long, whether accumulated from paragraphs or cut from a long one.
C13_ChunkBound ==
  call.fn = "chunk" => \A i \in 1..Len(call.ret) : Len(call.ret[i]) <= call.n

C13_Witness ==
  /\ call.fn = "chunk" /\ call.n = 4 /\ call.text = <<"a", "\n", "\n", "b">>
  /\ call.ret = << <<"a", "\n", "\n", "b">> >>

\* C14: chunk_text_by_chars(T, M), M > 0, returns only non-empty chunks, and
\* the chunks concatenated in order are T up to whitespace: nothing else is
\* dropped, duplicated or reordered.
C14_ChunkContent ==
  call.fn = "chunk" =>
    /\ \A i \in 1..Len(call.ret) : call.ret[i] # <<>>
    /\ NoWhitespace(Concat(call.ret)) = NoWhitespace(call.text)

C14_Witness ==
  /\ call.fn = "chunk" /\ call.n = 2
  /\ call.text = <<"a", "b", " ", "b", "a">>
  /\ call.ret = << <<"a", "b">>, <<" ", "b">>, <<"a">> >>

\* C15: safe_trim(safe_trim(T, N), N) = safe_trim(T, N) for every T and
\* every N >= 0.
C15_TrimIdempotent == call.fn = "trim2" => call.ret = call.first

C15_Witness ==
  /\ call.fn = "trim2" /\ Len(call.text) > call.n /\ call.n > 0
  /\ Len(call.first) = call.n + Len(TruncMarker)

\* C16: rewrite_text("") makes no adapter call, adds no diagnostics entry,
\* does not raise and returns the empty text; chunk_text_by_chars("", M) is
\* the empty sequence for every M.
C16_EmptyInput ==
  /\ (text = <<>> /\ pc # "idle") =>
       /\ pc \in {"loop", "done"}
       /\ parts = <<>> /\ calls = 0 /\ diagnostics = <<>>
       /\ pc = "done" => (result.text = <<>> /\ result.diagnostics = <<>>)
  /\ \A m \in (-1)..ChunkMax : chunk_text_by_chars(<<>>, m) = <<>>

C16_Witness == pc = "done" /\ text = <<>> /\ result.text = <<>> /\ tries = MaxTries

\* C17: when a 429 failure is slept on, the wait is the Retry-After hint if
\* the headers carry one that parses as a number, and backoff x attempt if
\* the hint is absent or does not parse; the adapter is never invoked more
\* than tries times.
C17_RateLimitWait ==
  /\ (pc = "sleep" /\ IsRateLimit(out)) =>
       /\ out.headers = Hint(<<"3">>) => wait = 3
       /\ out.headers = Hint(<<"-", "1">>) => wait = -1
       /\ out.headers = Hint(<<"x">>) => wait = GEMINI_BACKOFF * attempt
       /\ out.headers = NoHint => wait = GEMINI_BACKOFF * attempt
       /\ calls = attempt
  /\ calls <= (IF tries > 0 THEN tries ELSE 0)

C17_Witness ==
  /\ pc = "sleep" /\ IsRateLimit(out) /\ attempt = 2
  /\ out.headers = Hint(<<"3">>) /\ wait = 3

\* C18: a transient failure (5xx, no status) at attempt n < tries is slept
\* on for exactly backoff x n and followed by attempt n + 1; at n = tries it
\* is returned without a wait.
TransientState ==
  /\ (pc = "sleep" /\ IsTransient(out)) =>
       (attempt < tries /\ calls = attempt /\ wait = GEMINI_BACKOFF * attempt)
  /\ (pc = "collect" /\ tries >= 1 /\ IsTransient(once_out)) =>
       (calls = tries /\ slept = tries - 1 /\ out = once_out)

TransientStep ==
  /\ (pc = "evaluate" /\ IsTransient(out) /\ attempt < tries) =>
       (pc' = "sleep" /\ wait' = GEMINI_BACKOFF * attempt /\ slept' = slept)
  /\ (pc = "evaluate" /\ IsTransient(out) /\ attempt >= tries) =>
       (pc' = "collect" /\ out' = out /\ slept' = slept)
  /\ (pc = "sleep" /\ IsTransient(out)) =>
       (pc' = "once" /\ attempt' = attempt + 1 /\ slept' = slept + 1)
  /\ (pc = "once" /\ pc' # "raised") => calls' = calls + 1

C18_TransientBackoff == []TransientState /\ [][TransientStep]_vars

C18_Witness ==
  /\ pc = "sleep" /\ IsTransient(out) /\ tries = MaxTries /\ attempt = 2
  /\ wait = 2 * GEMINI_BACKOFF

\* C19: when the adapter returns a text at attempt n, call_gemini_with_retry
\* returns that text after exactly n invocations and n - 1 waits; nothing is
\* slept on or called after a success.
C19_SuccessReturned ==
  /\ pc = "sleep" => IsFailure(out)
  /\ (tries >= 1 /\ pc = "collect" /\ once_out.t = "str" /\ calls >= 1) =>
       (out = once_out /\ calls = attempt /\ slept = calls - 1)

C19_Witness ==
  /\ pc = "collect" /\ out.t = "str" /\ out = once_out
  /\ calls = MaxTries /\ slept = MaxTries - 1

\* C20: chunks are processed one at a time in order: the adapter works on
\* chunk idx + 1 only when chunks 1..idx all have their final result; a
\* chunk that ended in Failure is followed by the attempt of the next one.
SequentialState ==
  /\ pc \in {"once", "evaluate", "sleep", "collect"} =>
       /\ idx < Len(parts)
       /\ Len(rets) = idx /\ Len(outputs) = idx
       /\ prompt = build_prompt_chunk(parts[idx + 1], tone)
  /\ (pc = "loop" /\ idx < Len(parts)) => ENABLED rewrite_next_chunk

SequentialStep ==
  /\ (pc = "collect" /\ IsFailure(out)) => (pc' = "loop" /\ idx' = idx + 1)
  /\ (pc = "loop" /\ idx < Len(parts) /\ tries >= 1) =>
       (pc' = "once" /\ idx' = idx /\ calls' = 0
        /\ prompt' = build_prompt_chunk(parts[idx + 1], tone))

C20_Sequential == []SequentialState /\ [][SequentialStep]_vars

C20_Witness ==
  /\ pc = "once" /\ idx = 1 /\ calls = 0 /\ IsClientError(rets[1])

\* the paragraphs of a text: its pieces between blank-line separators,
\* stripped, the blank ones left out
RECURSIVE stripped_nonblank(_)
stripped_nonblank(ps) ==
  IF ps = <<>> THEN <<>>
  ELSE LET p == strip(Head(ps))
       IN  (IF p = <<>> THEN <<>> ELSE <<p>>) \o stripped_nonblank(Tail(ps))

paragraphs_of(s) == stripped_nonblank(split_blank(s))

\* C21: the chunks of T joined with the blank-line separator differ from T
\* only by whitespace at paragraph boundaries: the joined text has exactly
\* the paragraphs of T, none of them broken by a separator.
C21_JoinKeepsParagraphs ==
  call.fn = "chunk" =>
    paragraphs_of(join_blank(call.ret)) = paragraphs_of(call.text)

Terminators == {".", "!", "?"}

\* 0-based positions of the terminators inside the window [start, end) that
\* lie after its first character
TerminatorsIn(s, start, end) ==
  {i \in (start + 1)..(end - 1) : s[i + 1] \in Terminators}

SetMax(S) == CHOOSE x \in S : \A y \in S : y <= x

\* C22: when the window of an iteration does not reach the end of the text,
\* the cut is just after the terminator ('.', '!' or '?') nearest to the
\* window end, whichever of the three it is, and at the window end only if
\* the window has no terminator after its first character.
C22_CutAtNearestTerminator ==
  (call.fn = "loop" /\ call.iter > 0) =>
    LET n == Len(call.text)
        wend == IF call.prev + call.n < n THEN call.prev + call.n ELSE n
        T == TerminatorsIn(call.text, call.prev, wend)
    IN  wend < n =>
          call.start = (IF T # {} THEN SetMax(T) + 1 ELSE wend)

\* every iteration so far advanced the cursor and every chunk so far is
\* non-empty and at most max_chars long
SentenceChunksOk ==
  call.fn \in {"loop", "returned"} =>
    /\ call.iter > 0 => call.start > call.prev
    /\ \A i \in 1..Len(call.ret) :
         call.ret[i] # <<>> /\ Len(call.ret[i]) <= call.n

\* C23: for max_chars >= 1 the sentence-boundary chunker terminates, its
\* cursor strictly advances on every iteration, and every chunk is non-empty
\* and at most max_chars long.
C23_SentenceChunker == []SentenceChunksOk /\ <>(call.fn = "returned")

\* at most chunk_retries attempts on a chunk, no attempt on a later chunk
\* than the current one, no audio unless the call returned, and on a normal
\* return one segment per chunk, in chunk order
TtsState ==
  /\ call.tried <= call.retries
  /\ call.touched <= call.idx + 1
  /\ call.fn # "returned" => call.audio = NoAudio
  /\ (call.fn = "after" /\ call.last_exc) =>
       (call.tried = call.retries /\ Len(call.segments) = call.idx)
  /\ (call.fn = "raised" /\ call.why = "chunk") =>
       (call.touched = call.idx + 1 /\ call.idx < Len(call.chunks))
  /\ call.fn = "returned" =>
       (call.segments = call.chunks /\ call.audio = call.chunks)

\* a chunk whose attempts all failed ends the call with TTSException, and
\* nothing is attempted after a raise
TtsStep ==
  /\ (call.fn = "after" /\ call.last_exc) =>
       (call'.fn = "raised" /\ call'.why = "chunk")
  /\ call.fn = "raised" => call' = call

\* C24: in synthesize_gtts_bytes each chunk is attempted at most
\* chunk_retries times; a chunk whose attempts all fail raises TTSException,
\* with no later chunk synthesized and no audio returned; a normal return
\* carries exactly one segment per chunk, concatenated in chunk order.
C24_TtsChunks == []TtsState /\ [][TtsStep]_vars

C24_Witness ==
  /\ call.fn = "returned" /\ call.retries = MaxRetries /\ call.tried = 2
  /\ call.text = <<"a", "b", "b", "a", "b">>
  /\ call.audio = << <<"a", "b">>, <<"b", "a">>, <<"b">> >>

\* C25: every completed sleep of call_gemini_with_retry is followed by
\* another adapter invocation; none occurs after the final attempt.
C25_NoUselessSleep == [][slept' = slept + 1 => pc' = "once"]_vars

\* with tries >= 1: a chunk's retry loop ends after 1..tries invocations, and
\* a run that has ended has brought every chunk to the adapter
EveryChunkInvoked ==
  tries >= 1 =>
    /\ calls <= tries
    /\ pc = "collect" => calls >= 1
    /\ pc = "done" => (idx = Len(parts) /\ Len(rets) = Len(parts))
    /\ pc = "raised" => idx + 1 = Len(parts)

\* C26: for tries >= 1 rewrite_text terminates and every chunk receives at
\* least one and at most tries adapter invocations (so at most
\* chunks x tries in the whole run).
C26_TerminatesBounded ==
  []EveryChunkInvoked /\ (tries >= 1 => <>(pc \in {"done", "raised"}))
====
